---- MODULE Spec2Model ----
(***************************************************************************)
(* LspLiveReload: the reload orchestration of lsp-live-reload.             *)
(*                                                                         *)
(* One session (class LspLiveReload) watches the build output of a server, *)
(* debounces the change notifications, and per debounced trigger runs one  *)
(* reload cycle: stop the client if it needs stopping, back the files up   *)
(* through performAsyncWithRetry, start the client.  Time is counted in    *)
(* milliseconds and advances in steps of TickMs.                           *)
(***************************************************************************)
EXTENDS Integers, Sequences, FiniteSets, TLC

\* ---------------------------------------------------------------------
\* Program constants (milliseconds)
\* ---------------------------------------------------------------------
DEBOUNCE_TIME == 700
RETRY_TIME == 60000
RETRY_INTERVAL == 100
STOP_GRACE == 2200

\* ---------------------------------------------------------------------
\* Bounds of the model
\* ---------------------------------------------------------------------
\* reload cycles one session may initiate
MaxCycles == 2
\* cap on the attempt budget RETRY_TIME / RETRY_INTERVAL of the session
MaxAttempts == 2
\* largest count given to performAsyncWithRetry when it is run on its own
MaxRetryCount == 3
\* longest command given to computeBackupOptions, in characters
MaxPathLen == 5
\* runs of copyDirRecursively into one destination
MaxRuns == 2

\* the clock's step: every delay of the program is a multiple of it
TickMs == RETRY_INTERVAL

Min(a, b) == IF a < b THEN a ELSE b

\* ---------------------------------------------------------------------
\* performAsyncWithRetry
\*
\* A run of the function is a record:
\*   count, intervalMs  its options
\*   i                  the loop variable; the call in flight is call i+1
\*   pc                 "call"     awaiting action()
\*                      "delay"    awaiting delay(intervalMs)
\*                      "returned" resolved with result
\*                      "threw"    rejected with err
\*   timer              what remains of the delay in progress
\*   calls, delays, waited   how often action() was invoked, how many
\*                      delays were begun, and the time spent in them
\* An outcome of action() is [ok |-> BOOLEAN, v |-> value or error kind].
\* ---------------------------------------------------------------------
NoError == [kind |-> "none", at |-> 0]

NoRetry ==
  [count |-> 0, intervalMs |-> 0, i |-> 0, pc |-> "none", timer |-> 0,
   result |-> "none", err |-> NoError, calls |-> 0, delays |-> 0, waited |-> 0]

\* mutant: no check of count
performAsyncWithRetry_NoCheck(count, intervalMs) ==
  [NoRetry EXCEPT !.count = count, !.intervalMs = intervalMs,
                  !.pc = "call", !.calls = 1]

\* entry: the count check, then the first action() call (i = 0; with
\* count = 1 the loop body never runs and this is the final call)
performAsyncWithRetry(count, intervalMs) ==
  IF count <= 0
  THEN [NoRetry EXCEPT !.count = count, !.intervalMs = intervalMs,
                       !.pc = "threw", !.err = [kind |-> "illegal", at |-> 0]]
  ELSE [NoRetry EXCEPT !.count = count, !.intervalMs = intervalMs,
                       !.pc = "call", !.calls = 1]

\* mutant: the loop runs while i < count, one call too many
RetrySettled_OffByOne(r, o) ==
  IF o.ok THEN [r EXCEPT !.pc = "returned", !.result = o.v]
  ELSE IF r.i < r.count
       THEN [r EXCEPT !.pc = "delay", !.timer = r.intervalMs, !.delays = @ + 1]
       ELSE [r EXCEPT !.pc = "threw", !.err = [kind |-> o.v, at |-> r.calls]]

\* mutant: a failure inside the loop is not caught
RetrySettled_NoCatch(r, o) ==
  IF o.ok THEN [r EXCEPT !.pc = "returned", !.result = o.v]
  ELSE [r EXCEPT !.pc = "threw", !.err = [kind |-> o.v, at |-> r.calls]]

\* the awaited action() settles with outcome o
RetrySettled(r, o) ==
  IF o.ok
  THEN [r EXCEPT !.pc = "returned", !.result = o.v]
  ELSE IF r.i < r.count - 1
       THEN \* inside the loop: caught, then await delay(intervalMs)
            [r EXCEPT !.pc = "delay", !.timer = r.intervalMs, !.delays = @ + 1]
       ELSE \* the final call, after the loop: its exception propagates
            [r EXCEPT !.pc = "threw", !.err = [kind |-> o.v, at |-> r.calls]]

\* ms of the delay in progress pass
RetryWait(r, ms) ==
  IF r.pc = "delay" /\ r.timer > 0
  THEN [r EXCEPT !.timer = @ - ms, !.waited = @ + ms]
  ELSE r

\* mutant: the loop variable is not advanced
RetryDelayElapsed_NoIncrement(r) ==
  [r EXCEPT !.pc = "call"]

\* the delay is over: i++, and the next action() call (in the loop when
\* i < count - 1, the final one otherwise)
RetryDelayElapsed(r) ==
  [r EXCEPT !.i = @ + 1, !.pc = "call", !.calls = @ + 1]

RetryDone(r) == r.pc \in {"returned", "threw"}

\* ---------------------------------------------------------------------
\* The session: class LspLiveReload
\* ---------------------------------------------------------------------
VARIABLES
  backupOptions,  \* the BackupOptions given to the constructor
  aborted,        \* #abortController.signal.aborted
  watcher,        \* watcher setup and #watcher: "mkdir" (setup awaits mkdir),
                  \* "open", "broken", "closed", "none" (setup failed),
                  \* "aborted" (setup threw AbortError)
  timerId,        \* the debounce timer: what remains of the window, or -1
  client,         \* state of the LanguageClient
  cyc,            \* the reload cycles: runs of #performReload's async body
  reloadCount,    \* #reloadCount
  notification,   \* #notification: the status bar message
  \* history, read by the properties only
  sinceLast,      \* time since the last requestReload() call, capped
  firesSinceReq,  \* invocations of the debounced function since that call
  restarted,      \* that call found the timer set and restarted the window
  disposedAgain,  \* dispose() was called on a disposed session
  disposeStops,   \* client.stop() calls made by dispose()
  sessionErrors,  \* who emitted an error event outside any reload cycle
  \* performAsyncWithRetry run on its own
  rr,             \* the run
  script,         \* its action: fails on its first K calls, then returns val
  \* computeBackupOptions run on its own
  command,        \* its argument command, a sequence of characters
  backup,         \* its argument options.backup
  plan,           \* what it returned or threw
  \* copyDirRecursively run on its own
  srcTree,        \* the source directory
  destTree,       \* the destination
  firstTree,      \* the destination as the first run left it
  copyRuns,       \* runs made so far
  copyErr,        \* the error of the last run
  signalled,      \* the signal given to the runs is aborted
  late,           \* entries the last run dealt with after the abort
  \* startLspSessionDev
  devWatcher,     \* watcher: "none", "armed" (the once listener is set),
                  \* "fired" (the listener has run), "closed"
  devTimerId,     \* the debounce timer: what remains of the window, or -1
  devClient,      \* state of the LanguageClient
  devReloads,     \* the runs of reload
  devDisposed,    \* the subscriptions of the context were disposed
  devLost         \* history: a change met no listener while nothing was
                  \* pending or in progress

sessionVars ==
  <<backupOptions, aborted, watcher, timerId, client, cyc, reloadCount,
    notification, sinceLast, firesSinceReq, restarted,
    disposedAgain, disposeStops, sessionErrors>>

retryVars == <<rr, script>>

planVars == <<command, backup, plan>>

treeVars == <<srcTree, destTree, firstTree, copyRuns, copyErr, signalled, late>>

\* what the session leaves alone
devVars ==
  <<devWatcher, devTimerId, devClient, devReloads, devDisposed, devLost>>

pureVars == <<retryVars, planVars, treeVars, devVars>>

vars == <<sessionVars, pureVars>>

Cycles == 1..MaxCycles

\* count: RETRY_TIME / RETRY_INTERVAL, capped by the bound of the model
RetryCount == Min(RETRY_TIME \div RETRY_INTERVAL, MaxAttempts)

\* what computeBackupOptions returns for its two strategies, as far as the
\* session reads it: "cmd" stands for the basename of the command
BackupPlans ==
  { [copyType |-> "file", watchFile |-> "cmd"],
    [copyType |-> "directory", watchFile |-> "null"] }

\* the filename a "change" event of fs.watch carries
FileNames == {"cmd", "other", "null"}

NoCycle ==
  [pc |-> "idle", id |-> 0, needsStop |-> FALSE, events |-> <<>>, timer |-> 0,
   retry |-> NoRetry, outcome |-> "none", error |-> "none",
   stopCalls |-> 0, startCalls |-> 0, abortedDuring |-> FALSE]

NoNotification == [kind |-> "none", id |-> 0]

Started == {c \in Cycles : cyc[c].pc # "idle"}

InProgress == {c \in Cycles : cyc[c].pc \notin {"idle", "done", "retired"}}

\* cyc with the record of cycle c replaced by cy.  The program keeps nothing
\* of a cycle that is over; the model keeps the history of the cycle that
\* ended last, for the properties, and drops the history of the others.
put(c, cy) ==
  [d \in Cycles |->
     IF d = c THEN cy
     ELSE IF cy.pc = "done" /\ cyc[d].pc = "done"
          THEN [NoCycle EXCEPT !.pc = "retired"]
          ELSE cyc[d]]

\* LanguageClient.needsStop()
needsStop == client \in {"starting", "running"}

\* #emit(type)
emit(cy, type) == [cy EXCEPT !.events = Append(@, type)]

\* the then-callback of #notifyReload, run when the cycle's promise resolves
notifyReloaded(cy) ==
  IF aborted THEN notification ELSE [kind |-> "reloaded", id |-> cy.id]

\* the end of the async body of #performReload
finish(cy, outcome) ==
  [cy EXCEPT !.pc = "done", !.outcome = outcome, !.timer = 0]

\* mutant: no error is taken for an AbortError
isAbortError_Never(kind) == FALSE

\* e instanceof AbortError
isAbortError(kind) == kind = "abort"

\* mutant: the catch of #performReload drops the error
emitError_Silent(cy, kind) == finish([cy EXCEPT !.error = kind], "error")

\* mutant: the async body of #performReload without its catch
emitError_Rethrow(cy, kind) == finish([cy EXCEPT !.error = kind], "rejected")

\* #emitError(err), from the catch of #performReload
emitError(cy, kind) ==
  IF isAbortError(kind)
  THEN finish(cy, "swallowed")
  ELSE finish([emit(cy, "error") EXCEPT !.error = kind], "error")

\* the copy block of #performReload up to its await: willCopy, then
\* #backupFiles() calls performAsyncWithRetry, which calls the action
beginCopy(cy) ==
  [emit(cy, "willCopy") EXCEPT
     !.pc = "copy",
     !.retry = performAsyncWithRetry(RetryCount, RETRY_INTERVAL)]

\* the start block of #performReload up to its await
beginStart(cy) ==
  [emit(cy, "willStartClient") EXCEPT !.pc = "start", !.startCalls = @ + 1]

Outcomes == [ok : BOOLEAN, v : {"copied", "ENOENT", "fs", "abort"}]

\* how fsP.copyFile(copySrc, copyDest) can settle
copyFileSettles ==
  { [ok |-> TRUE, v |-> "copied"], [ok |-> FALSE, v |-> "ENOENT"],
    [ok |-> FALSE, v |-> "fs"] }

\* mutant: the catch rethrows every error
catchENOENT_Rethrow(o) == o

\* the catch on the promise of copyFile: ENOENT is taken for success
catchENOENT(o) ==
  IF ~o.ok /\ o.v = "ENOENT" THEN [ok |-> TRUE, v |-> "ENOENT"] ELSE o

\* how one call of the backup action can settle: fsP.copyFile with ENOENT
\* caught, or copyDirRecursively, which throws AbortError at its first
\* check of the signal once the session is disposed
backupAction(copyType, isAborted) ==
  IF copyType = "file"
  THEN {catchENOENT(o) : o \in copyFileSettles}
  ELSE IF isAborted
       THEN { [ok |-> FALSE, v |-> "abort"], [ok |-> FALSE, v |-> "fs"] }
       ELSE { [ok |-> TRUE, v |-> "copied"], [ok |-> FALSE, v |-> "fs"] }

\* ---------------------------------------------------------------------
\* Paths and computeBackupOptions
\*
\* A path is a sequence of characters; a literal suffix of the program is
\* one element of the sequence.  path is the POSIX flavour of Node's module.
\* ---------------------------------------------------------------------
Chars == {"/", ".", "a", "b"}

Sep == "/"

\* path.isAbsolute
isAbsolute(p) == Len(p) > 0 /\ p[1] = Sep

\* the positions of p that hold something else than a separator
NonSep(p) == {i \in 1..Len(p) : p[i] # Sep}

Max(S) == CHOOSE x \in S : \A y \in S : y <= x

\* path.dirname: the path up to the separator that precedes the last
\* component, trailing separators not counted; the first character is
\* never taken for that separator
dirname(p) ==
  LET last == IF NonSep(p) = {} THEN 0 ELSE Max(NonSep(p))
      seps == {i \in 2..Len(p) : p[i] = Sep /\ i < last}
  IN IF seps = {}
     THEN IF isAbsolute(p) THEN <<Sep>> ELSE <<".">>
     ELSE IF isAbsolute(p) /\ Max(seps) = 2
          THEN <<Sep, Sep>>
          ELSE SubSeq(p, 1, Max(seps) - 1)

\* path.basename: the last component, trailing separators not counted
basename(p) ==
  IF NonSep(p) = {} THEN <<>>
  ELSE LET end == Max(NonSep(p))
           seps == {i \in 1..end : p[i] = Sep}
           start == IF seps = {} THEN 1 ELSE Max(seps) + 1
       IN SubSeq(p, start, end)

\* the components of p: what stands between its separators
RECURSIVE Split(_)
Split(p) ==
  IF p = <<>> THEN << <<>> >>
  ELSE LET r == Split(Tail(p))
       IN IF Head(p) = Sep THEN << <<>> >> \o r
          ELSE << <<Head(p)>> \o Head(r) >> \o Tail(r)

\* normalizeString: empty components and "." are dropped, ".." removes the
\* component before it; above the top it is kept only if allowAboveRoot
RECURSIVE normalizeString(_, _, _)
normalizeString(segs, res, allowAboveRoot) ==
  IF segs = <<>> THEN res
  ELSE LET seg == Head(segs)
           next ==
             IF seg = <<>> \/ seg = <<".">> THEN res
             ELSE IF seg = <<".", ".">>
                  THEN IF res # <<>> /\ res[Len(res)] # <<".", ".">>
                       THEN SubSeq(res, 1, Len(res) - 1)
                       ELSE IF allowAboveRoot THEN Append(res, seg) ELSE res
                  ELSE Append(res, seg)
       IN normalizeString(Tail(segs), next, allowAboveRoot)

RECURSIVE Join(_)
Join(segs) ==
  IF segs = <<>> THEN <<>>
  ELSE IF Len(segs) = 1 THEN Head(segs)
  ELSE Head(segs) \o <<Sep>> \o Join(Tail(segs))

\* path.normalize
normalize(p) ==
  IF p = <<>> THEN <<".">>
  ELSE LET abs == isAbsolute(p)
           trailingSeparator == p[Len(p)] = Sep
           r == Join(normalizeString(Split(p), <<>>, ~abs))
       IN IF r = <<>>
          THEN IF abs THEN <<Sep>>
               ELSE IF trailingSeparator THEN <<".", Sep>> ELSE <<".">>
          ELSE (IF abs THEN <<Sep>> ELSE <<>>) \o r
               \o (IF trailingSeparator THEN <<Sep>> ELSE <<>>)

stripTrailingSep(filepath) ==
  IF Len(filepath) > 0 /\ filepath[Len(filepath)] = Sep
  THEN SubSeq(filepath, 1, Len(filepath) - 1)
  ELSE filepath

Null == <<"null">>

NoOptions ==
  [copyType |-> "none", copySrc |-> <<>>, copyDest |-> <<>>,
   watchDir |-> <<>>, watchFile |-> Null]

NotComputed == [state |-> "none", command |-> <<>>, backupOptions |-> NoOptions]

Throw(why) == [state |-> why, command |-> <<>>, backupOptions |-> NoOptions]

Return(cmd, options) ==
  [state |-> "returned", command |-> cmd, backupOptions |-> options]

computeBackupOptions(cmd, backupType) ==
  IF ~isAbsolute(cmd) THEN Throw("must be absolute")
  ELSE IF dirname(cmd) = <<Sep>> THEN Throw("must be under a non-root directory")
  ELSE LET normalizedCommand == normalize(cmd)
       IN IF backupType = "commandOnly"
          THEN Return(normalizedCommand \o <<".BACKUP.exe">>,
                      [copyType |-> "file",
                       copySrc |-> normalizedCommand,
                       copyDest |-> normalizedCommand \o <<".BACKUP.exe">>,
                       watchDir |-> dirname(normalizedCommand),
                       watchFile |-> basename(normalizedCommand)])
          ELSE LET copySrc == stripTrailingSep(dirname(normalizedCommand))
                   copyDest == copySrc \o <<".BACKUP.d">>
               IN Return(copyDest \o <<Sep>> \o basename(normalizedCommand),
                         [copyType |-> "directory",
                          copySrc |-> copySrc,
                          copyDest |-> copyDest,
                          watchDir |-> copySrc,
                          watchFile |-> Null])

\* computeBackupOptions is not in use
planUnused ==
  /\ command = <<>>
  /\ backup = "commandOnly"
  /\ plan = NotComputed

\* ---------------------------------------------------------------------
\* Directory trees and copyDirRecursively
\* ---------------------------------------------------------------------
Names == <<"x", "y">>

Kinds == {"absent", "file", "link", "other", "dir"}

\* the entries of a tree: those of the top directory and those of its
\* subdirectories; <<>> is the top directory itself
TreePaths ==
  {<<>>} \cup {<<Names[i]>> : i \in DOMAIN Names}
         \cup {<<Names[i], Names[j]>> : i \in DOMAIN Names, j \in DOMAIN Names}

EmptyTree == [q \in TreePaths |-> "absent"]

\* a run of the copy: the destination so far and the error thrown, if any
Fs(tree, err) == [fs |-> tree, err |-> err]

\* fsP.readdir: the names of the entries of directory dir
readdir(tree, dir) ==
  SelectSeq(Names, LAMBDA n : /\ Append(dir, n) \in TreePaths
                              /\ tree[Append(dir, n)] # "absent")

\* fsP.mkdir(destDir, { recursive: true })
mkdir(st, dir) ==
  IF st.fs[dir] = "absent" THEN Fs([st.fs EXCEPT ![dir] = "dir"], "none")
  ELSE IF st.fs[dir] = "dir" THEN st
  ELSE Fs(st.fs, "EEXIST")

\* fsP.copyFile(srcFile, destFile): writes the file, through a link if the
\* destination is one
copyFile(st, q) ==
  IF st.fs[q] = "dir" THEN Fs(st.fs, "EISDIR")
  ELSE IF st.fs[q] = "link" THEN st
  ELSE Fs([st.fs EXCEPT ![q] = "file"], "none")

\* fsP.symlink(target, destFile)
symlink(st, q) ==
  IF st.fs[q] # "absent" THEN Fs(st.fs, "EEXIST")
  ELSE Fs([st.fs EXCEPT ![q] = "link"], "none")

\* the signal is never aborted
Never == 0 - 1

\* a run that has not begun: the destination tree, no error, no awaited
\* call settled yet, and no entry dealt with late
Run(tree) == [fs |-> tree, err |-> "none", ops |-> 0, late |-> 0]

\* an awaited call of the run st settles as r
await(st, r) == [st EXCEPT !.fs = r.fs, !.err = r.err, !.ops = @ + 1]

\* signal.aborted as the run st reads it, dispose() being called while the
\* awaited call number at is pending (0: before the run)
signalAborted(st, at) == at # Never /\ st.ops >= at

\* throw new AbortError()
throwAbortError(st) == [st EXCEPT !.err = "abort"]

RECURSIVE copyDirRecursively(_, _, _, _)
RECURSIVE copyEntries(_, _, _, _, _)

\* the branch of the loop body for the entry q, taken after lstat; late
\* counts the entries that come to it although the signal was aborted
\* before their iteration began
copyBranch(src, st, q, at, wasAborted) ==
  LET entered == [st EXCEPT !.late = @ + IF wasAborted THEN 1 ELSE 0]
  IN IF src[q] = "dir" THEN copyDirRecursively(src, entered, q, at)
     ELSE IF src[q] = "file" THEN await(entered, copyFile(entered, q))
     ELSE IF src[q] = "link"
          THEN LET target == await(entered, Fs(entered.fs, "none"))
               IN await(target, symlink(target, q))
     ELSE entered

\* mutant: the loop body without the check that ends it
copyEntry_NoEndCheck(src, st, dir, filename, at) ==
  LET q == Append(dir, filename)
      stat == await(st, Fs(st.fs, "none"))
  IN IF signalAborted(stat, at) THEN throwAbortError(stat)
     ELSE copyBranch(src, stat, q, at, signalAborted(st, at))

\* the body of the loop for the entry filename of directory dir: lstat,
\* the check of the signal, the branch, and the check again
copyEntry(src, st, dir, filename, at) ==
  LET q == Append(dir, filename)
      stat == await(st, Fs(st.fs, "none"))
      done == IF signalAborted(stat, at) THEN throwAbortError(stat)
              ELSE copyBranch(src, stat, q, at, signalAborted(st, at))
  IN IF done.err = "none" /\ signalAborted(done, at)
     THEN throwAbortError(done)
     ELSE done

\* the loop over the entries: an error ends it
copyEntries(src, st, dir, files, at) ==
  IF files = <<>> \/ st.err # "none" THEN st
  ELSE copyEntries(src, copyEntry(src, st, dir, Head(files), at),
                   dir, Tail(files), at)

\* copyDirRecursively(srcDir, destDir, signal) for the directory dir of the
\* source tree src, continuing the run st: mkdir, check, readdir, check,
\* then the loop
copyDirRecursively(src, st, dir, at) ==
  LET made == await(st, mkdir(st, dir))
      listed == await(made, Fs(made.fs, "none"))
  IN IF made.err # "none" THEN made
     ELSE IF signalAborted(made, at) THEN throwAbortError(made)
     ELSE IF signalAborted(listed, at) THEN throwAbortError(listed)
     ELSE copyEntries(src, listed, dir, readdir(src, dir), at)

\* the calls during which dispose() can come in a run from the
\* destination tree: before it, during any call it awaits, or never
AbortPoints(src, tree) ==
  Never..copyDirRecursively(src, Run(tree), <<>>, Never).ops

\* copyDirRecursively is not in use
treeUnused ==
  /\ srcTree = EmptyTree
  /\ destTree = EmptyTree
  /\ firstTree = EmptyTree
  /\ copyRuns = 0
  /\ copyErr = "none"
  /\ signalled = FALSE
  /\ late = 0

\* runs of reload in one session of startLspSessionDev
MaxReloads == 2

Reloads == 1..MaxReloads

NoReload ==
  [pc |-> "idle", timer |-> 0, retry |-> NoRetry, outcome |-> "none"]

\* startLspSessionDev is not in use
devUnused ==
  /\ devWatcher = "none"
  /\ devTimerId = 0 - 1
  /\ devClient = "stopped"
  /\ devReloads = [r \in Reloads |-> NoReload]
  /\ devDisposed = FALSE
  /\ devLost = FALSE

\* no session is in use
sessionUnused ==
  /\ backupOptions = [copyType |-> "file", watchFile |-> "cmd"]
  /\ aborted = FALSE
  /\ watcher = "mkdir"
  /\ timerId = DEBOUNCE_TIME
  /\ client = "stopped"
  /\ cyc = [c \in Cycles |-> NoCycle]
  /\ reloadCount = 0
  /\ notification = NoNotification
  /\ sinceLast = 0
  /\ firesSinceReq = 0
  /\ restarted = FALSE
  /\ disposedAgain = FALSE
  /\ disposeStops = 0
  /\ sessionErrors = {}

\* performAsyncWithRetry is not in use
retryUnused ==
  /\ rr = NoRetry
  /\ script = [K |-> 0, val |-> "none"]

\* mutant: a constructor that does not call requestReload()
Init_NoRequest ==
  /\ backupOptions \in BackupPlans
  /\ aborted = FALSE
  /\ watcher = "mkdir"
  /\ timerId = 0 - 1
  /\ client = "stopped"
  /\ cyc = [c \in Cycles |-> NoCycle]
  /\ reloadCount = 0
  /\ notification = NoNotification
  /\ sinceLast = 0
  /\ firesSinceReq = 0
  /\ restarted = FALSE
  /\ disposedAgain = FALSE
  /\ disposeStops = 0
  /\ sessionErrors = {}
  /\ retryUnused
  /\ planUnused
  /\ treeUnused
  /\ devUnused

\* the state the constructor leaves: watcher setup awaits mkdir, and the
\* constructor's own requestReload() has set the debounce timer.  The
\* client is handed over not yet started: the session starts it.
Init ==
  /\ backupOptions \in BackupPlans
  /\ aborted = FALSE
  /\ watcher = "mkdir"
  /\ timerId = DEBOUNCE_TIME
  /\ client = "stopped"
  /\ cyc = [c \in Cycles |-> NoCycle]
  /\ reloadCount = 0
  /\ notification = NoNotification
  /\ sinceLast = 0
  /\ firesSinceReq = 0
  /\ restarted = FALSE
  /\ disposedAgain = FALSE
  /\ disposeStops = 0
  /\ sessionErrors = {}
  /\ rr = NoRetry
  /\ script = [K |-> 0, val |-> "none"]
  /\ planUnused
  /\ treeUnused
  /\ devUnused

\* ---------------------------------------------------------------------
\* The debouncer: debounce(f, DEBOUNCE_TIME) of lodash, trailing edge
\* ---------------------------------------------------------------------
\* mutant: a request made while the timer is set leaves the timer alone
requestReload_NoRestart ==
  /\ timerId' = IF timerId >= 0 THEN timerId ELSE DEBOUNCE_TIME
  /\ sinceLast' = 0
  /\ firesSinceReq' = 0
  /\ restarted' = (timerId >= 0)

\* requestReload(): the window starts again from this call
requestReload ==
  /\ timerId' = DEBOUNCE_TIME
  /\ sinceLast' = 0
  /\ firesSinceReq' = 0
  /\ restarted' = (timerId >= 0)

\* ---------------------------------------------------------------------
\* Watcher setup and the watcher's handlers (constructor)
\* ---------------------------------------------------------------------
\* fsP.mkdir(watchDir) settles; then fs.watch, which may throw
WatcherSetup(mkdirOk, watchOk) ==
  /\ watcher = "mkdir"
  /\ LET fault == IF ~mkdirOk THEN "mkdir"
                  ELSE IF aborted THEN "abort"
                  ELSE IF ~watchOk THEN "watch"
                  ELSE "none"
     IN /\ watcher' = IF fault = "none" THEN "open"
                      ELSE IF fault = "abort" THEN "aborted"
                      ELSE "none"
        /\ \* the catch: #emitError(err), which returns on an AbortError
           sessionErrors' = IF fault = "none" \/ isAbortError(fault)
                            THEN sessionErrors
                            ELSE sessionErrors \cup {"setup"}
  /\ UNCHANGED <<backupOptions, aborted, timerId, client, cyc, reloadCount,
                 notification, sinceLast, firesSinceReq, restarted,
                 disposedAgain, disposeStops, pureVars>>

\* mutant: the "change" handler without its filter
ignored_Never(filename) == FALSE

\* the filter of the "change" handler: a single file is watched and the
\* notification names another one (or none)
ignored(filename) ==
  backupOptions.watchFile # "null" /\ backupOptions.watchFile # filename

\* the "change" handler
WatcherChange(filename) ==
  /\ watcher = "open"
  /\ Cardinality(Started) < MaxCycles
  /\ IF ignored(filename)
     THEN UNCHANGED <<timerId, sinceLast, firesSinceReq, restarted>>
     ELSE requestReload
  /\ UNCHANGED <<backupOptions, aborted, watcher, client, cyc, reloadCount,
                 notification, disposedAgain, disposeStops, sessionErrors, pureVars>>

\* the "error" handler: #emitError(err).  An FSWatcher that reports an error
\* has lost its handle and delivers no further event.
WatcherError ==
  /\ watcher = "open"
  /\ watcher' = "broken"
  /\ sessionErrors' = sessionErrors \cup {"watcher"}
  /\ UNCHANGED <<backupOptions, aborted, timerId, client, cyc, reloadCount,
                 notification, sinceLast, firesSinceReq, restarted,
                 disposedAgain, disposeStops, pureVars>>

\* ---------------------------------------------------------------------
\* #performReload and #notifyReload
\* ---------------------------------------------------------------------
\* the synchronous part of #performReload, up to its first await, and
\* #notifyReload, for the cycle record cy
performReload(cy) ==
  LET c0 == [emit(cy, "willReload") EXCEPT !.needsStop = needsStop,
                                           !.id = reloadCount + 1]
  IN IF needsStop
     THEN [emit(c0, "willStopClient") EXCEPT !.pc = "stop", !.stopCalls = @ + 1]
     ELSE beginCopy(c0)

\* mutant: no reload is performed once a cycle has ended with an error
DebounceFire_DeadAfterError ==
  /\ timerId = 0
  /\ timerId' = -1
  /\ firesSinceReq' = firesSinceReq + 1
  /\ restarted' = FALSE
  /\ IF aborted \/ \E d \in Cycles : cyc[d].outcome = "error"
     THEN UNCHANGED <<client, cyc, reloadCount, notification>>
     ELSE LET c == Cardinality(Started) + 1
              cy == performReload(cyc[c])
          IN /\ cyc' = put(c, cy)
             /\ client' = IF cy.pc = "stop" THEN "stopping" ELSE client
             /\ reloadCount' = reloadCount + 1
             /\ notification' = [kind |-> "reloading", id |-> reloadCount + 1]
  /\ UNCHANGED <<backupOptions, aborted, watcher, sinceLast, disposedAgain,
                 disposeStops, sessionErrors, pureVars>>

\* mutant: the debounced function waits for the cycle in progress
DebounceFire_Queue ==
  /\ timerId = 0
  /\ timerId' = -1
  /\ firesSinceReq' = firesSinceReq + 1
  /\ restarted' = FALSE
  /\ IF aborted \/ InProgress # {}
     THEN UNCHANGED <<client, cyc, reloadCount, notification>>
     ELSE LET c == Cardinality(Started) + 1
              cy == performReload(cyc[c])
          IN /\ cyc' = put(c, cy)
             /\ client' = IF cy.pc = "stop" THEN "stopping" ELSE client
             /\ reloadCount' = reloadCount + 1
             /\ notification' = [kind |-> "reloading", id |-> reloadCount + 1]
  /\ UNCHANGED <<backupOptions, aborted, watcher, sinceLast, disposedAgain,
                 disposeStops, sessionErrors, pureVars>>

\* mutant: #performReload without its check of the signal
DebounceFire_NoAbortCheck ==
  /\ timerId = 0
  /\ timerId' = -1
  /\ firesSinceReq' = firesSinceReq + 1
  /\ restarted' = FALSE
  /\ LET c == Cardinality(Started) + 1
         cy == performReload(cyc[c])
     IN /\ cyc' = put(c, cy)
        /\ client' = IF cy.pc = "stop" THEN "stopping" ELSE client
        /\ reloadCount' = reloadCount + 1
        /\ notification' = [kind |-> "reloading", id |-> reloadCount + 1]
  /\ UNCHANGED <<backupOptions, aborted, watcher, sinceLast, disposedAgain,
                 disposeStops, sessionErrors, pureVars>>

\* the debounce timer expires: the debounced function runs
DebounceFire ==
  /\ timerId = 0
  /\ timerId' = -1
  /\ firesSinceReq' = firesSinceReq + 1
  /\ restarted' = FALSE
  /\ IF aborted
     THEN UNCHANGED <<client, cyc, reloadCount, notification>>
     ELSE LET c == Cardinality(Started) + 1
              cy == performReload(cyc[c])
          IN /\ cyc' = put(c, cy)
             /\ client' = IF cy.pc = "stop" THEN "stopping" ELSE client
             /\ reloadCount' = reloadCount + 1
             /\ notification' = [kind |-> "reloading", id |-> reloadCount + 1]
  /\ UNCHANGED <<backupOptions, aborted, watcher, sinceLast, disposedAgain,
                 disposeStops, sessionErrors, pureVars>>

\* await client.stop(2000) settles
StopSettles(c, ok) ==
  /\ cyc[c].pc = "stop"
  /\ LET cy == IF ok
               THEN [cyc[c] EXCEPT !.pc = "grace", !.timer = STOP_GRACE]
               ELSE emitError(cyc[c], "stop")
     IN /\ cyc' = put(c, cy)
        /\ client' = IF ok THEN "stopped" ELSE "running"
        /\ notification' = IF cy.pc = "done" THEN notifyReloaded(cy)
                           ELSE notification
  /\ UNCHANGED <<backupOptions, aborted, watcher, timerId, reloadCount,
                 sinceLast, firesSinceReq, restarted, disposedAgain,
                 disposeStops, sessionErrors, pureVars>>

\* mutant: the cycle goes on before the delay is over
GraceElapsed_Early(c) ==
  /\ cyc[c].pc = "grace"
  /\ LET cy == beginCopy(emit(cyc[c], "didStopClient"))
     IN /\ cyc' = put(c, cy)
  /\ UNCHANGED <<backupOptions, aborted, watcher, timerId, client,
                 reloadCount, notification, sinceLast, firesSinceReq,
                 restarted, disposedAgain, disposeStops, sessionErrors,
                 pureVars>>

\* await delay(2000 + 200) is over: didStopClient, then the copy block
GraceElapsed(c) ==
  /\ cyc[c].pc = "grace"
  /\ cyc[c].timer = 0
  /\ LET cy == beginCopy(emit(cyc[c], "didStopClient"))
     IN /\ cyc' = put(c, cy)
  /\ UNCHANGED <<backupOptions, aborted, watcher, timerId, client,
                 reloadCount, notification, sinceLast, firesSinceReq,
                 restarted, disposedAgain, disposeStops, sessionErrors,
                 pureVars>>

\* mutant: a failed backup does not end the cycle
afterBackup_GoOn(cy, r) ==
  IF RetryDone(r) THEN beginStart(emit([cy EXCEPT !.retry = r], "didCopy"))
  ELSE [cy EXCEPT !.retry = r]

\* what follows the await of #backupFiles() once the retry run r is over
afterBackup(cy, r) ==
  IF r.pc = "returned" THEN beginStart(emit([cy EXCEPT !.retry = r], "didCopy"))
  ELSE IF r.pc = "threw" THEN emitError([cy EXCEPT !.retry = r], r.err.kind)
  ELSE [cy EXCEPT !.retry = r]

\* one call of the backup action settles with outcome o
CopySettles(c, o) ==
  /\ cyc[c].pc = "copy"
  /\ cyc[c].retry.pc = "call"
  /\ o \in backupAction(backupOptions.copyType, aborted)
  /\ LET cy == afterBackup(cyc[c], RetrySettled(cyc[c].retry, o))
     IN /\ cyc' = put(c, cy)
        /\ client' = IF cy.pc = "start" THEN "starting" ELSE client
        /\ notification' = IF cy.pc = "done" THEN notifyReloaded(cy)
                           ELSE notification
  /\ UNCHANGED <<backupOptions, aborted, watcher, timerId, reloadCount,
                 sinceLast, firesSinceReq, restarted, disposedAgain,
                 disposeStops, sessionErrors, pureVars>>

\* await delay(intervalMs) of the retry loop is over: the next call
CopyRetry(c) ==
  /\ cyc[c].pc = "copy"
  /\ cyc[c].retry.pc = "delay"
  /\ cyc[c].retry.timer = 0
  /\ cyc' = [cyc EXCEPT ![c].retry = RetryDelayElapsed(@)]
  /\ UNCHANGED <<backupOptions, aborted, watcher, timerId, client,
                 reloadCount, notification, sinceLast, firesSinceReq,
                 restarted, disposedAgain, disposeStops, sessionErrors, pureVars>>

\* await client.start() settles
StartSettles(c, ok) ==
  /\ cyc[c].pc = "start"
  /\ LET cy == IF ok THEN finish(emit(cyc[c], "didReload"), "reloaded")
               ELSE emitError(cyc[c], "start")
     IN /\ cyc' = put(c, cy)
        /\ client' = IF ok THEN "running" ELSE "stopped"
        /\ notification' = notifyReloaded(cy)
  /\ UNCHANGED <<backupOptions, aborted, watcher, timerId, reloadCount,
                 sinceLast, firesSinceReq, restarted, disposedAgain,
                 disposeStops, sessionErrors, pureVars>>

\* ---------------------------------------------------------------------
\* dispose()
\* ---------------------------------------------------------------------
\* what dispose() does past its guard
disposeBody ==
  /\ aborted' = TRUE
  /\ disposeStops' = disposeStops + 1
  /\ client' = IF needsStop THEN "stopping" ELSE client
  /\ notification' = NoNotification
  /\ watcher' = IF watcher \in {"open", "broken"} THEN "closed" ELSE watcher
  /\ cyc' = [c \in Cycles |->
               IF c \in InProgress THEN [cyc[c] EXCEPT !.abortedDuring = TRUE]
               ELSE cyc[c]]

\* mutant: dispose() without its guard
dispose_NoGuard ==
  /\ disposeBody
  /\ disposedAgain' = aborted
  /\ UNCHANGED <<backupOptions, timerId, reloadCount, sinceLast,
                 firesSinceReq, restarted, sessionErrors,
                 pureVars>>

dispose ==
  /\ IF aborted
     THEN /\ disposedAgain' = TRUE
          /\ UNCHANGED <<aborted, disposeStops, client, notification,
                         watcher, cyc>>
     ELSE /\ disposeBody
          /\ UNCHANGED disposedAgain
  /\ UNCHANGED <<backupOptions, timerId, reloadCount, sinceLast,
                 firesSinceReq, restarted, sessionErrors,
                 pureVars>>

\* the debounced function runs, and a listener of "willReload" calls
\* dispose(): the event is dispatched before the first await of the async
\* body, so the body goes on with the signal aborted (needsStop() is false
\* once stop() was called) and #notifyReload returns at its check
ListenerDisposes ==
  /\ timerId = 0
  /\ ~aborted
  /\ timerId' = 0 - 1
  /\ firesSinceReq' = firesSinceReq + 1
  /\ restarted' = FALSE
  /\ aborted' = TRUE
  /\ disposeStops' = disposeStops + 1
  /\ client' = IF needsStop THEN "stopping" ELSE client
  /\ notification' = NoNotification
  /\ watcher' = IF watcher \in {"open", "broken"} THEN "closed" ELSE watcher
  /\ LET c == Cardinality(Started) + 1
         cy == beginCopy([emit(cyc[c], "willReload") EXCEPT
                            !.abortedDuring = TRUE])
     IN cyc' = [d \in Cycles |->
                  IF d = c THEN cy
                  ELSE IF d \in InProgress
                       THEN [cyc[d] EXCEPT !.abortedDuring = TRUE]
                       ELSE cyc[d]]
  /\ UNCHANGED <<backupOptions, reloadCount, sinceLast, disposedAgain,
                 sessionErrors, pureVars>>

\* the stop() that dispose() requested settles
DisposeStopSettles ==
  /\ aborted
  /\ client = "stopping"
  /\ \A c \in Cycles : cyc[c].pc # "stop"
  /\ client' = "stopped"
  /\ UNCHANGED <<backupOptions, aborted, watcher, timerId, cyc, reloadCount,
                 notification, sinceLast, firesSinceReq, restarted,
                 disposedAgain, disposeStops, sessionErrors,
                 pureVars>>

\* ---------------------------------------------------------------------
\* Time
\* ---------------------------------------------------------------------
\* a timer of the session has run out and its callback has not run yet
Due ==
  \/ timerId = 0
  \/ \E c \in Cycles :
       \/ cyc[c].pc = "grace" /\ cyc[c].timer = 0
       \/ /\ cyc[c].pc = "copy"
          /\ cyc[c].retry.pc = "delay"
          /\ cyc[c].retry.timer = 0

SinceCap == DEBOUNCE_TIME + TickMs

\* TickMs pass; no timer runs past its expiry
Tick ==
  /\ ~Due
  /\ \/ timerId > 0
     \/ sinceLast < SinceCap
     \/ \E c \in Cycles : cyc[c].pc = "grace" \/ cyc[c].retry.pc = "delay"
  /\ timerId' = IF timerId > 0 THEN timerId - TickMs ELSE timerId
  /\ sinceLast' = Min(sinceLast + TickMs, SinceCap)
  /\ cyc' = [c \in Cycles |->
               [cyc[c] EXCEPT
                  !.timer = IF cyc[c].pc = "grace" THEN @ - TickMs ELSE @,
                  !.retry = RetryWait(@, TickMs)]]
  /\ UNCHANGED <<backupOptions, aborted, watcher, client, reloadCount,
                 notification, firesSinceReq, restarted, disposedAgain,
                 disposeStops, sessionErrors, pureVars>>

Next ==
  \/ \E mkdirOk \in BOOLEAN, watchOk \in BOOLEAN :
       WatcherSetup(mkdirOk, watchOk)
  \/ \E filename \in FileNames : WatcherChange(filename)
  \/ WatcherError
  \/ DebounceFire
  \/ \E c \in Cycles, ok \in BOOLEAN : StopSettles(c, ok)
  \/ \E c \in Cycles : GraceElapsed(c)
  \/ \E c \in Cycles, o \in Outcomes : CopySettles(c, o)
  \/ \E c \in Cycles : CopyRetry(c)
  \/ \E c \in Cycles, ok \in BOOLEAN : StartSettles(c, ok)
  \/ dispose
  \/ ListenerDisposes
  \/ DisposeStopSettles
  \/ Tick

Spec == Init /\ [][Next]_vars

\* ---------------------------------------------------------------------
\* The session with every awaited call returning and every timer running
\* out: the event loop runs a callback that is due, time passes, and each
\* call a cycle awaits (stop, copy attempt, start) settles.
\* ---------------------------------------------------------------------
Returns ==
  /\ WF_vars(DebounceFire)
  /\ WF_vars(Tick)
  /\ \A c \in Cycles :
       /\ WF_vars(\E ok \in BOOLEAN : StopSettles(c, ok))
       /\ WF_vars(GraceElapsed(c))
       /\ WF_vars(\E o \in Outcomes : CopySettles(c, o))
       /\ WF_vars(CopyRetry(c))
       /\ WF_vars(\E ok \in BOOLEAN : StartSettles(c, ok))

SpecReturns == Spec /\ Returns

\* ---------------------------------------------------------------------
\* The session left alone: no change notification arrives and dispose()
\* is not called.  The client, stopped at first, is never found running by
\* the one cycle there is, so nothing of the stop block can happen.
\* ---------------------------------------------------------------------
NextQuiet ==
  \/ \E mkdirOk \in BOOLEAN, watchOk \in BOOLEAN :
       WatcherSetup(mkdirOk, watchOk)
  \/ WatcherError
  \/ DebounceFire
  \/ \E c \in Cycles, o \in Outcomes : CopySettles(c, o)
  \/ \E c \in Cycles : CopyRetry(c)
  \/ \E c \in Cycles, ok \in BOOLEAN : StartSettles(c, ok)
  \/ Tick

SpecQuiet == Init /\ [][NextQuiet]_vars

\* ---------------------------------------------------------------------
\* performAsyncWithRetry on its own, over every count and every action
\* that fails on its first K calls
\* ---------------------------------------------------------------------
RetryCounts == (0 - 1)..MaxRetryCount

RetryIntervals == {RETRY_INTERVAL, 2 * RETRY_INTERVAL}

Values == {"a", "b"}

\* the outcome of the n-th call of the scripted action
scriptedAction(n) ==
  IF n <= script.K THEN [ok |-> FALSE, v |-> "fail"]
  ELSE [ok |-> TRUE, v |-> script.val]

InitRetry ==
  /\ sessionUnused
  /\ script \in [K : 0..MaxRetryCount, val : Values]
  /\ \E count \in RetryCounts, intervalMs \in RetryIntervals :
       rr = performAsyncWithRetry(count, intervalMs)
  /\ planUnused
  /\ treeUnused
  /\ devUnused

RunSettles ==
  /\ rr.pc = "call"
  /\ rr' = RetrySettled(rr, scriptedAction(rr.calls))
  /\ UNCHANGED <<script, sessionVars, planVars, treeVars, devVars>>

RunWait ==
  /\ rr.pc = "delay"
  /\ rr.timer > 0
  /\ rr' = RetryWait(rr, TickMs)
  /\ UNCHANGED <<script, sessionVars, planVars, treeVars, devVars>>

RunRetry ==
  /\ rr.pc = "delay"
  /\ rr.timer = 0
  /\ rr' = RetryDelayElapsed(rr)
  /\ UNCHANGED <<script, sessionVars, planVars, treeVars, devVars>>

NextRetry == RunSettles \/ RunWait \/ RunRetry

SpecRetry == InitRetry /\ [][NextRetry]_vars

\* ---------------------------------------------------------------------
\* computeBackupOptions on its own, over every command of up to MaxPathLen
\* characters and both strategies
\* ---------------------------------------------------------------------
Commands == UNION {[1..n -> Chars] : n \in 0..MaxPathLen}

BackupTypes == {"commandOnly", "parentDirectory"}

InitPlan ==
  /\ sessionUnused
  /\ retryUnused
  /\ treeUnused
  /\ devUnused
  /\ command \in Commands
  /\ backup \in BackupTypes
  /\ plan = NotComputed

ComputePlan ==
  /\ plan = NotComputed
  /\ plan' = computeBackupOptions(command, backup)
  /\ UNCHANGED <<command, backup, sessionVars, retryVars, treeVars, devVars>>

NextPlan == ComputePlan

SpecPlan == InitPlan /\ [][NextPlan]_vars

\* ---------------------------------------------------------------------
\* copyDirRecursively on its own: repeated runs from one unchanged source
\* tree into one destination, which does not exist before the first run
\* ---------------------------------------------------------------------
SourceTrees ==
  {t \in [TreePaths -> Kinds] :
     /\ t[<<>>] = "dir"
     /\ \A q \in TreePaths :
          (Len(q) > 1 /\ t[q] # "absent") => t[SubSeq(q, 1, Len(q) - 1)] = "dir"}

InitCopy ==
  /\ sessionUnused
  /\ retryUnused
  /\ planUnused
  /\ devUnused
  /\ srcTree \in SourceTrees
  /\ destTree = EmptyTree
  /\ firstTree = EmptyTree
  /\ copyRuns = 0
  /\ copyErr = "none"
  /\ signalled = FALSE
  /\ late = 0

\* one run; dispose() is called before it, during one of its awaited
\* calls, or not at all, and the signal stays aborted in the runs after
RunCopy ==
  /\ copyRuns < MaxRuns
  /\ \E at \in AbortPoints(srcTree, destTree) :
       /\ signalled => at = 0
       /\ LET r == copyDirRecursively(srcTree, Run(destTree), <<>>, at)
          IN /\ destTree' = r.fs
             /\ copyErr' = r.err
             /\ late' = r.late
             /\ signalled' = signalAborted(r, at)
             /\ firstTree' = IF copyRuns = 0 THEN r.fs ELSE firstTree
  /\ copyRuns' = copyRuns + 1
  /\ UNCHANGED <<srcTree, sessionVars, retryVars, planVars, devVars>>

NextCopy == RunCopy

SpecCopy == InitCopy /\ [][NextCopy]_vars

\* ---------------------------------------------------------------------
\* startLspSessionDev: the session of the development extension, with a
\* one-shot watcher that reload arms again
\* ---------------------------------------------------------------------
DevStarted == {r \in Reloads : devReloads[r].pc # "idle"}

DevInProgress == {r \in Reloads : devReloads[r].pc \notin {"idle", "done"}}

DevFinished == {r \in Reloads : devReloads[r].pc = "done"}

\* client.needsStop()
devNeedsStop == devClient \in {"starting", "running"}

\* ensureWatch(): the watcher is closed, then fs.watch, which may throw,
\* and the once listener
ensureWatch(watchOk) ==
  IF watchOk THEN "armed"
  ELSE IF devWatcher = "none" THEN "none" ELSE "closed"

\* the end of reload
devFinish(rl, outcome) ==
  [rl EXCEPT !.pc = "done", !.outcome = outcome, !.timer = 0]

\* reload at "reload: backup.": backupFiles() calls performAsyncWithRetry
devBeginBackup(rl) ==
  [rl EXCEPT !.pc = "backup",
             !.retry = performAsyncWithRetry(RetryCount, RETRY_INTERVAL)]

\* the output directory changes.  The listener set with once calls
\* requestReload and is gone; a change that meets no listener is dropped
\* (of the dropped ones, the model records the one that comes while no
\* request is pending and no reload in progress)
DevChange ==
  /\ Cardinality(DevStarted) < MaxReloads
  /\ IF devWatcher = "armed"
     THEN /\ devWatcher' = "fired"
          /\ devTimerId' = DEBOUNCE_TIME
          /\ UNCHANGED devLost
     ELSE /\ devTimerId = 0 - 1
          /\ DevInProgress = {}
          /\ ~devLost
          /\ devLost' = TRUE
          /\ UNCHANGED <<devWatcher, devTimerId>>
  /\ UNCHANGED <<devClient, devReloads, devDisposed, sessionVars, retryVars,
                 planVars, treeVars>>

\* mutant: reload calls ensureWatch() before the backup
DevDebounceFire_WatchFirst ==
  /\ devTimerId = 0
  /\ devTimerId' = 0 - 1
  /\ devWatcher' = "armed"
  /\ LET r == Cardinality(DevStarted) + 1
         rl == IF devNeedsStop THEN [NoReload EXCEPT !.pc = "stop"]
               ELSE devBeginBackup(NoReload)
     IN /\ devReloads' = [d \in Reloads |-> IF d = r THEN rl ELSE devReloads[d]]
        /\ devClient' = IF devNeedsStop THEN "stopping" ELSE devClient
  /\ UNCHANGED <<devDisposed, devLost, sessionVars, retryVars,
                 planVars, treeVars>>

\* the debounce timer expires: reload runs up to its first await
DevDebounceFire ==
  /\ devTimerId = 0
  /\ devTimerId' = 0 - 1
  /\ LET r == Cardinality(DevStarted) + 1
         rl == IF devNeedsStop THEN [NoReload EXCEPT !.pc = "stop"]
               ELSE devBeginBackup(NoReload)
     IN /\ devReloads' = [d \in Reloads |-> IF d = r THEN rl ELSE devReloads[d]]
        /\ devClient' = IF devNeedsStop THEN "stopping" ELSE devClient
  /\ UNCHANGED <<devWatcher, devDisposed, devLost, sessionVars, retryVars,
                 planVars, treeVars>>

\* await client.stop() settles; a rejection is caught at the end of reload
DevStopSettles(r, ok) ==
  /\ devReloads[r].pc = "stop"
  /\ devReloads' =
       [devReloads EXCEPT
          ![r] = IF ok THEN [@ EXCEPT !.pc = "grace", !.timer = STOP_GRACE]
                 ELSE devFinish(@, "error")]
  /\ devClient' = IF ok THEN "stopped" ELSE "running"
  /\ UNCHANGED <<devWatcher, devTimerId, devDisposed, devLost, sessionVars,
                 retryVars, planVars, treeVars>>

\* await delay(2000 + 200) is over
DevGraceElapsed(r) ==
  /\ devReloads[r].pc = "grace"
  /\ devReloads[r].timer = 0
  /\ devReloads' = [devReloads EXCEPT ![r] = devBeginBackup(@)]
  /\ UNCHANGED <<devWatcher, devTimerId, devClient, devDisposed, devLost,
                 sessionVars, retryVars, planVars, treeVars>>

\* one call of copyDirRecursively settles.  When backupFiles() returns,
\* reload goes on without an await: ensureWatch(), client.start(), the end;
\* when it throws, the catch of reload logs the error
DevBackupSettles(r, ok, watchOk) ==
  /\ devReloads[r].pc = "backup"
  /\ devReloads[r].retry.pc = "call"
  /\ LET o == IF ok THEN [ok |-> TRUE, v |-> "copied"]
              ELSE [ok |-> FALSE, v |-> "fs"]
         rs == RetrySettled(devReloads[r].retry, o)
         rl == [devReloads[r] EXCEPT !.retry = rs]
         started == rs.pc = "returned" /\ watchOk
     IN /\ devReloads' =
             [devReloads EXCEPT
                ![r] = IF started THEN devFinish(rl, "reloaded")
                       ELSE IF RetryDone(rs) THEN devFinish(rl, "error")
                       ELSE rl]
        /\ devWatcher' = IF rs.pc = "returned" THEN ensureWatch(watchOk)
                         ELSE devWatcher
        /\ devClient' = IF started THEN "starting" ELSE devClient
  /\ UNCHANGED <<devTimerId, devDisposed, devLost, sessionVars, retryVars,
                 planVars, treeVars>>

\* await delay(intervalMs) of the retry loop is over: the next call
DevBackupRetry(r) ==
  /\ devReloads[r].pc = "backup"
  /\ devReloads[r].retry.pc = "delay"
  /\ devReloads[r].retry.timer = 0
  /\ devReloads' = [devReloads EXCEPT ![r].retry = RetryDelayElapsed(@)]
  /\ UNCHANGED <<devWatcher, devTimerId, devClient, devDisposed, devLost,
                 sessionVars, retryVars, planVars, treeVars>>

\* the promise of client.start(), which reload does not await, settles
DevStartSettles(ok) ==
  /\ devClient = "starting"
  /\ devClient' = IF ok THEN "running" ELSE "stopped"
  /\ UNCHANGED <<devWatcher, devTimerId, devReloads, devDisposed, devLost,
                 sessionVars, retryVars, planVars, treeVars>>

\* the subscriptions pushed to the context are disposed: the watcher is
\* closed and the client stopped; the timer and the reloads are left alone
DevDispose ==
  /\ ~devDisposed
  /\ devDisposed' = TRUE
  /\ devWatcher' = IF devWatcher \in {"armed", "fired"} THEN "closed"
                   ELSE devWatcher
  /\ devClient' = IF devNeedsStop THEN "stopping" ELSE devClient
  /\ UNCHANGED <<devTimerId, devReloads, devLost, sessionVars, retryVars,
                 planVars, treeVars>>

\* the stop() that the disposal requested settles
DevDisposeStopSettles ==
  /\ devDisposed
  /\ devClient = "stopping"
  /\ \A r \in Reloads : devReloads[r].pc # "stop"
  /\ devClient' = "stopped"
  /\ UNCHANGED <<devWatcher, devTimerId, devReloads, devDisposed, devLost,
                 sessionVars, retryVars, planVars, treeVars>>

\* a timer has run out and its callback has not run yet
DevDue ==
  \/ devTimerId = 0
  \/ \E r \in Reloads :
       \/ devReloads[r].pc = "grace" /\ devReloads[r].timer = 0
       \/ /\ devReloads[r].pc = "backup"
          /\ devReloads[r].retry.pc = "delay"
          /\ devReloads[r].retry.timer = 0

\* TickMs pass
DevTick ==
  /\ ~DevDue
  /\ \/ devTimerId > 0
     \/ \E r \in Reloads :
          devReloads[r].pc = "grace" \/ devReloads[r].retry.pc = "delay"
  /\ devTimerId' = IF devTimerId > 0 THEN devTimerId - TickMs ELSE devTimerId
  /\ devReloads' =
       [r \in Reloads |->
          [devReloads[r] EXCEPT
             !.timer = IF devReloads[r].pc = "grace" THEN @ - TickMs ELSE @,
             !.retry = RetryWait(@, TickMs)]]
  /\ UNCHANGED <<devWatcher, devClient, devDisposed, devLost, sessionVars,
                 retryVars, planVars, treeVars>>

\* startLspSessionDev(options): it ends with requestReload()
InitDev ==
  /\ sessionUnused
  /\ retryUnused
  /\ planUnused
  /\ treeUnused
  /\ devWatcher = "none"
  /\ devTimerId = DEBOUNCE_TIME
  /\ devClient = "stopped"
  /\ devReloads = [r \in Reloads |-> NoReload]
  /\ devDisposed = FALSE
  /\ devLost = FALSE

NextDev ==
  \/ DevChange
  \/ DevDebounceFire
  \/ \E r \in Reloads, ok \in BOOLEAN : DevStopSettles(r, ok)
  \/ \E r \in Reloads : DevGraceElapsed(r)
  \/ \E r \in Reloads, ok \in BOOLEAN, watchOk \in BOOLEAN :
       DevBackupSettles(r, ok, watchOk)
  \/ \E r \in Reloads : DevBackupRetry(r)
  \/ \E ok \in BOOLEAN : DevStartSettles(ok)
  \/ DevDispose
  \/ DevDisposeStopSettles
  \/ DevTick

SpecDev == InitDev /\ [][NextDev]_vars

\* ---------------------------------------------------------------------
\* Properties
\* ---------------------------------------------------------------------
Over(c) == cyc[c].pc = "done"

\* C1: a cycle that found needsStop() false and whose copy and start
\* succeeded has emitted exactly willReload, willCopy, didCopy,
\* willStartClient, didStartClient, didReload, in this order.
C1_EventsWithoutStop ==
  \A c \in Cycles :
    (Over(c) /\ cyc[c].outcome = "reloaded" /\ ~cyc[c].needsStop)
      => cyc[c].events = <<"willReload", "willCopy", "didCopy",
                           "willStartClient", "didStartClient", "didReload">>

\* C2: a cycle that found needsStop() true and whose stop, copy and start
\* succeeded has emitted exactly willReload, willStopClient, didStopClient,
\* willCopy, didCopy, willStartClient, didStartClient, didReload.
C2_EventsWithStop ==
  \A c \in Cycles :
    (Over(c) /\ cyc[c].outcome = "reloaded" /\ cyc[c].needsStop)
      => cyc[c].events = <<"willReload", "willStopClient", "didStopClient",
                           "willCopy", "didCopy", "willStartClient",
                           "didStartClient", "didReload">>

\* the copy of cycle c failed on every attempt of its budget, the client
\* needed no stop, and the session was not disposed while c was running
CopyExhausted(c) ==
  /\ Over(c)
  /\ cyc[c].retry.pc = "threw"
  /\ ~cyc[c].needsStop
  /\ ~cyc[c].abortedDuring

\* C3: when the copy fails on every attempt (needsStop() false, session not
\* cancelled) the cycle has emitted exactly willReload, willCopy, error, it
\* made count attempts, and it never requested the client's start.
C3_CopyFailureEndsCycle ==
  \A c \in Cycles :
    CopyExhausted(c)
      => /\ cyc[c].events = <<"willReload", "willCopy", "error">>
         /\ cyc[c].retry.calls = RetryCount
         /\ cyc[c].startCalls = 0
         /\ cyc[c].outcome = "error"

C3_Witness ==
  \E c \in Cycles :
    /\ CopyExhausted(c)
    /\ cyc[c].retry.calls = RetryCount
    /\ cyc[c].events = <<"willReload", "willCopy", "error">>

\* C4: single-flight: at most one reload sequence is in progress.
C4_SingleFlight == Cardinality(InProgress) <= 1

\* C5: no copy attempt is in flight while the client is starting or running.
C5_NoCopyWhileRunning ==
  \A c \in Cycles :
    (cyc[c].pc = "copy" /\ cyc[c].retry.pc = "call")
      => client \notin {"starting", "running"}

\* C6: trailing-edge debounce: the debounced function is not invoked before
\* DEBOUNCE_TIME has passed since the last request, and once that time has
\* passed it has been invoked exactly once, however many requests the burst
\* held.
C6_Debounce ==
  /\ firesSinceReq <= 1
  /\ sinceLast < DEBOUNCE_TIME => firesSinceReq = 0
  /\ sinceLast > DEBOUNCE_TIME => firesSinceReq = 1

\* the window of a burst of two or more requests has run out
C6_Witness ==
  /\ restarted
  /\ timerId = 0
  /\ sinceLast = DEBOUNCE_TIME
  /\ reloadCount >= 1

\* C7: with count > 0 and an action that fails on exactly its first K calls,
\* K < count, performAsyncWithRetry never throws, and it returns the
\* action's value after exactly K + 1 calls.
C7_RetryReturns ==
  (rr.count > 0 /\ script.K < rr.count)
    => /\ rr.pc # "threw"
       /\ rr.calls <= script.K + 1
       /\ rr.pc = "returned" =>
            (rr.result = script.val /\ rr.calls = script.K + 1)
       /\ rr.pc = "delay" => rr.calls <= script.K

C7_Witness ==
  /\ rr.pc = "returned"
  /\ script.K >= 1
  /\ script.K = rr.count - 1
  /\ rr.calls = rr.count

\* C8: with count > 0 and an action that always fails,
\* performAsyncWithRetry calls the action exactly count times, waits
\* intervalMs before each call but the first, and throws the failure of the
\* last call, once.
C8_RetryThrowsLast ==
  (rr.count > 0 /\ script.K >= rr.count)
    => /\ rr.pc # "returned"
       /\ rr.calls <= rr.count
       /\ rr.pc = "call" => rr.waited = (rr.calls - 1) * rr.intervalMs
       /\ rr.pc = "threw" =>
            /\ rr.calls = rr.count
            /\ rr.delays = rr.count - 1
            /\ rr.waited = (rr.count - 1) * rr.intervalMs
            /\ rr.err = [kind |-> "fail", at |-> rr.count]

C8_Witness ==
  /\ rr.pc = "threw"
  /\ rr.count >= 2
  /\ script.K >= rr.count
  /\ rr.calls = rr.count

\* what dispose() writes
disposeWrites == <<aborted, disposeStops, watcher, notification, client, cyc>>

\* C9: the first dispose() sets aborted, requests the client's stop once
\* and leaves no watcher open; a later dispose() changes nothing and makes
\* no further stop request; aborted never returns to false.
C9_DisposeIdempotent ==
  /\ [](disposeStops = IF aborted THEN 1 ELSE 0)
  /\ [](aborted => watcher # "open")
  /\ [][aborted => aborted']_vars
  /\ [][(aborted /\ disposedAgain' /\ ~disposedAgain)
          => UNCHANGED <<disposeWrites, timerId, reloadCount>>]_vars

C9_Witness ==
  /\ aborted
  /\ disposedAgain
  /\ disposeStops = 1
  /\ watcher = "closed"

\* C10: after dispose() the session emits no lifecycle event: no cycle's
\* event list grows and no error event is emitted outside the cycles.
C10_NoEventAfterDispose ==
  [][aborted =>
       /\ \A c \in Cycles : Len(cyc'[c].events) <= Len(cyc[c].events)
       /\ sessionErrors' = sessionErrors]_vars

Events(c) == {cyc[c].events[k] : k \in 1..Len(cyc[c].events)}

\* C11: an AbortError never produces an error event: neither the one watcher
\* setup throws when the session was disposed during mkdir, nor the one the
\* directory copy throws after dispose() once the retry run passes it on.
C11_AbortErrorSwallowed ==
  /\ watcher = "aborted" => "setup" \notin sessionErrors
  /\ \A c \in Cycles :
       (Over(c) /\ cyc[c].retry.err.kind = "abort")
         => /\ "error" \notin Events(c)
            /\ cyc[c].error = "none"
            /\ cyc[c].outcome = "swallowed"

C11_Witness ==
  /\ watcher = "aborted"
  /\ \E c \in Cycles :
       /\ Over(c)
       /\ cyc[c].retry.err.kind = "abort"
       /\ cyc[c].events = <<"willReload", "willCopy">>

\* the events of a cycle up to the point where client.start() is awaited
UpToStart(c) ==
  IF cyc[c].needsStop
  THEN <<"willReload", "willStopClient", "didStopClient", "willCopy",
         "didCopy", "willStartClient">>
  ELSE <<"willReload", "willCopy", "didCopy", "willStartClient">>

\* C12: a cycle whose client.stop() or client.start() failed (session not
\* disposed meanwhile) has emitted exactly one error event, as its last
\* event, and ran no later step: after a stop failure no copy was attempted
\* and start was not requested; after a start failure there is no didReload.
C12_ControllerFailureEndsCycle ==
  \A c \in Cycles :
    (Over(c) /\ ~cyc[c].abortedDuring)
      => /\ cyc[c].error = "stop"
              => /\ cyc[c].events = <<"willReload", "willStopClient", "error">>
                 /\ cyc[c].retry = NoRetry
                 /\ cyc[c].startCalls = 0
                 /\ cyc[c].stopCalls = 1
         /\ cyc[c].error = "start"
              => /\ cyc[c].events = Append(UpToStart(c), "error")
                 /\ cyc[c].startCalls = 1
                 /\ cyc[c].retry.pc = "returned"

C12_Witness ==
  \E c \in Cycles :
    /\ Over(c)
    /\ ~cyc[c].abortedDuring
    /\ cyc[c].error = "stop"
    /\ cyc[c].stopCalls = 1
    /\ cyc[c].events = <<"willReload", "willStopClient", "error">>

\* a cycle has ended with an error event
Failed == \E c \in Cycles : Over(c) /\ cyc[c].outcome = "error"

\* C13: a failed cycle does not end the session.  The step that ends a
\* cycle with an error leaves the session undisposed, the watcher as it was
\* and the debounce window as it was; afterwards, while the session is not
\* disposed, a notification for the watched location starts the quiet
\* window, and when the window runs out a new cycle begins with willReload.
C13_SessionSurvivesError ==
  /\ [][\A c \in Cycles :
          (~Over(c) /\ cyc'[c].pc = "done" /\ cyc'[c].outcome = "error")
            => UNCHANGED <<aborted, watcher, timerId>>]_vars
  /\ [][(Failed /\ ~aborted)
          => \A f \in FileNames :
               (WatcherChange(f) /\ ~ignored(f)) => timerId' = DEBOUNCE_TIME]_vars
  /\ [][(Failed /\ ~aborted /\ ~aborted' /\ timerId = 0 /\ timerId' = 0 - 1)
          => /\ reloadCount' = reloadCount + 1
             /\ \E c \in Cycles :
                  /\ cyc[c].pc = "idle"
                  /\ cyc'[c].pc \in {"stop", "copy"}
                  /\ Head(cyc'[c].events) = "willReload"]_vars

\* a cycle ended with an error, a later window ran out, and the next cycle
\* has just begun
C13_Witness ==
  /\ ~aborted
  /\ Over(1)
  /\ cyc[1].error = "fs"
  /\ cyc[2].events = <<"willReload", "willCopy">>
  /\ cyc[2].id = 2
  /\ sinceLast = DEBOUNCE_TIME
  /\ timerId = 0 - 1

\* the fault that ended cycle c, if one did: the error of the stop or start
\* call, or the error the retry run of the copy threw
Fault(c) ==
  IF cyc[c].retry.pc = "threw" THEN cyc[c].retry.err.kind ELSE cyc[c].error

\* C14: no fault escapes.  The promise of a cycle that is over is resolved,
\* never rejected, whatever failed; a fault of stop, of the copy after its
\* retries, or of start is reported as the error event that closes the
\* cycle's events; a fault of watcher setup is reported as an error event.
C14_NoFaultEscapes ==
  /\ \A c \in Cycles :
       Over(c)
         => /\ cyc[c].outcome \in {"reloaded", "error", "swallowed"}
            /\ Fault(c) \in {"stop", "fs", "start"}
                 => /\ cyc[c].outcome = "error"
                    /\ cyc[c].error = Fault(c)
                    /\ cyc[c].events[Len(cyc[c].events)] = "error"
                    /\ Cardinality({k \in 1..Len(cyc[c].events) :
                                       cyc[c].events[k] = "error"}) = 1
  /\ watcher = "none" => "setup" \in sessionErrors

C14_Witness ==
  /\ watcher = "none"
  /\ "setup" \in sessionErrors
  /\ \E c \in Cycles :
       /\ Over(c)
       /\ Fault(c) = "start"
       /\ cyc[c].outcome = "error"

\* C15: with watchFile set, a change notification for another basename
\* leaves the debouncer as it is (no window is started or restarted, no
\* reload follows from it) and a notification for watchFile requests a
\* reload; with watchFile null every notification requests a reload.
C15_WatchFileFilter ==
  [][\A f \in FileNames :
       WatcherChange(f) =>
         IF backupOptions.watchFile = "null" \/ f = backupOptions.watchFile
         THEN timerId' = DEBOUNCE_TIME /\ sinceLast' = 0 /\ firesSinceReq' = 0
         ELSE UNCHANGED <<timerId, sinceLast, firesSinceReq, restarted,
                          reloadCount, cyc>>]_vars

\* a notification for watchFile has restarted a window that was running
C15_Witness ==
  /\ backupOptions.watchFile = "cmd"
  /\ watcher = "open"
  /\ restarted
  /\ sinceLast = 0
  /\ timerId = DEBOUNCE_TIME

\* the plan the two strategies are specified to give for the command P
\* with parent D and basename B
SpecifiedPlan(P, backupType) ==
  LET D == dirname(P)
      B == basename(P)
  IN IF backupType = "commandOnly"
     THEN Return(P \o <<".BACKUP.exe">>,
                 [copyType |-> "file", copySrc |-> P,
                  copyDest |-> P \o <<".BACKUP.exe">>,
                  watchDir |-> D, watchFile |-> B])
     ELSE Return(D \o <<".BACKUP.d">> \o <<Sep>> \o B,
                 [copyType |-> "directory", copySrc |-> D,
                  copyDest |-> D \o <<".BACKUP.d">>,
                  watchDir |-> D, watchFile |-> Null])

\* C16: for every command P that computeBackupOptions accepts, what it
\* returns is the specified plan: commandOnly copies the file P to
\* P.BACKUP.exe, watches B in D and runs P.BACKUP.exe; parentDirectory
\* copies the directory D to D.BACKUP.d, watches D and runs D.BACKUP.d/B.
C16_PlanAsSpecified ==
  plan.state = "returned" => plan = SpecifiedPlan(command, backup)

\* the file that p names lies in the root directory (or is the root)
ParentIsRoot(p) == isAbsolute(p) /\ dirname(normalize(p)) = <<Sep>>

\* C17: computeBackupOptions throws, and returns no plan, for every
\* relative command and for every command whose parent is the root
\* directory, under both strategies.
C17_RejectsRelativeAndRoot ==
  (plan # NotComputed /\ (~isAbsolute(command) \/ ParentIsRoot(command)))
    => plan.state \notin {"none", "returned"}

\* the tree holds a nested subdirectory, a regular file and a symbolic link
Mixed(tree) ==
  /\ \E q \in TreePaths : q # <<>> /\ tree[q] = "dir"
  /\ \E q \in TreePaths : tree[q] = "file"
  /\ \E q \in TreePaths : tree[q] = "link"

\* C18: copyDirRecursively is idempotent: a run after the first one, from
\* the unchanged source tree (with a subdirectory, a file and a symbolic
\* link) into the destination the first run made, throws no error and
\* leaves the destination as the first run left it.
C18_CopyIdempotent ==
  (copyRuns >= 2 /\ Mixed(srcTree) /\ ~signalled)
    => copyErr = "none" /\ destTree = firstTree

\* C19: with copyType file, a source file that is absent is no failure: the
\* retry run never throws ENOENT; the call that met ENOENT returned, so that
\* didCopy was emitted and client.start() called; and the run throws only
\* an other error, after all its attempts.
C19_AbsentSourceIsSuccess ==
  \A c \in Cycles :
    backupOptions.copyType = "file"
      => /\ cyc[c].retry.err.kind # "ENOENT"
         /\ cyc[c].retry.result = "ENOENT"
              => /\ cyc[c].retry.pc = "returned"
                 /\ cyc[c].retry.delays = cyc[c].retry.calls - 1
                 /\ "didCopy" \in Events(c)
                 /\ cyc[c].startCalls = 1
         /\ cyc[c].retry.pc = "threw"
              => /\ cyc[c].retry.err.kind = "fs"
                 /\ cyc[c].retry.calls = RetryCount

\* the source was absent at the first attempt
C19_Witness ==
  \E c \in Cycles :
    /\ backupOptions.copyType = "file"
    /\ cyc[c].retry.result = "ENOENT"
    /\ cyc[c].retry.calls = 1
    /\ cyc[c].retry.delays = 0
    /\ cyc[c].pc = "start"
    /\ cyc[c].events = <<"willReload", "willCopy", "didCopy", "willStartClient">>

\* C20: the constructor requests the first reload itself.  Left alone, the
\* session runs no cycle before the quiet window is over and exactly one
\* from then on, whatever became of watcher setup; when the copy of that
\* cycle has succeeded client.start() has been called once, and when the
\* start has succeeded the client runs.
C20_StartsAutomatically ==
  /\ reloadCount <= 1
  /\ Cardinality(Started) = reloadCount
  /\ sinceLast < DEBOUNCE_TIME => reloadCount = 0
  /\ sinceLast > DEBOUNCE_TIME => reloadCount = 1
  /\ \A c \in Cycles :
       /\ cyc[c].retry.pc = "returned" => cyc[c].startCalls = 1
       /\ (Over(c) /\ cyc[c].outcome = "reloaded")
            => /\ client = "running"
               /\ cyc[c].events[1] = "willReload"

\* watcher setup failed, and the client was started all the same
C20_Witness ==
  /\ watcher = "none"
  /\ reloadCount = 1
  /\ Over(1)
  /\ cyc[1].outcome = "reloaded"
  /\ cyc[1].startCalls = 1
  /\ client = "running"
  /\ ~restarted

\* C21: called with count <= 0, performAsyncWithRetry throws at once: the
\* action is never invoked and no delay is waited.
C21_IllegalCountThrows ==
  rr.count <= 0
    => /\ rr.pc = "threw"
       /\ rr.err.kind = "illegal"
       /\ rr.calls = 0
       /\ rr.delays = 0
       /\ rr.waited = 0

C21_Witness ==
  /\ rr.count = 0
  /\ rr.pc = "threw"
  /\ rr.calls = 0

\* C22: the debounced function that runs on a disposed session does
\* nothing.  Every cycle in progress on a disposed session was begun before
\* (or in the course of) the disposal, so that none was begun, no event
\* emitted and no call made by a later run; and the sequence number is
\* never ahead of the cycles begun.
C22_NoOpWhenDisposed ==
  /\ aborted => \A c \in InProgress : cyc[c].abortedDuring
  /\ reloadCount <= Cardinality(Started)
  /\ (aborted /\ Started = {}) => (reloadCount = 0 /\ client = "stopped")

\* dispose() came within the first quiet window, and the window has run out
C22_Witness ==
  /\ aborted
  /\ timerId = 0 - 1
  /\ firesSinceReq = 1
  /\ Started = {}
  /\ reloadCount = 0

\* C23: after dispose() the session never calls client.start(): a cycle
\* that was suspended in the stop call, the grace delay or a copy when the
\* session was disposed makes no start call.
C23_NoStartAfterDispose ==
  [][aborted =>
       \A c \in Cycles : cyc'[c].startCalls <= cyc[c].startCalls]_vars

\* C24: once the session is disposed, performAsyncWithRetry does not call
\* the copy action again after its delay.
C24_NoRetryAfterDispose ==
  [][aborted =>
       \A c \in Cycles : cyc'[c].retry.calls <= cyc[c].retry.calls]_vars

\* C27: in a cycle that found needsStop() true, no copy attempt begins
\* before stop() has returned and the delay of 2200 ms that follows it has
\* run out, and didStopClient comes after that delay and before willCopy:
\* while the cycle awaits stop() or the delay it has made no attempt and
\* emitted willReload and willStopClient only; once it has made an attempt
\* nothing is left of the delay, and its events begin willReload,
\* willStopClient, didStopClient, willCopy.
C27_CopyAfterStopAndGrace ==
  \A c \in Cycles :
    cyc[c].needsStop =>
      /\ cyc[c].stopCalls = 1
      /\ cyc[c].pc \in {"stop", "grace"} =>
            /\ cyc[c].retry = NoRetry
            /\ cyc[c].events = <<"willReload", "willStopClient">>
      /\ cyc[c].pc = "stop" => cyc[c].timer = 0
      /\ cyc[c].pc = "grace" => cyc[c].timer \in 0..STOP_GRACE
      /\ cyc[c].retry # NoRetry =>
            /\ cyc[c].timer = 0
            /\ Len(cyc[c].events) >= 4
            /\ SubSeq(cyc[c].events, 1, 4) =
                 <<"willReload", "willStopClient", "didStopClient", "willCopy">>

\* a cycle that stopped the client is at its first copy attempt
C27_Witness ==
  \E c \in Cycles :
    /\ cyc[c].needsStop
    /\ cyc[c].pc = "copy"
    /\ cyc[c].retry.calls = 1
    /\ cyc[c].events =
         <<"willReload", "willStopClient", "didStopClient", "willCopy">>

\* C28: the debouncer does not queue behind a running cycle.  A change
\* notification that is not filtered out and arrives while a cycle is in
\* progress starts a quiet window of its own; and when a window runs out on
\* a session that is not disposed the debounced function begins a new cycle
\* at once, whatever cycles are in progress, and leaves those as they are.
C28_NoQueueing ==
  [][/\ \A f \in FileNames :
          (InProgress # {} /\ WatcherChange(f) /\ ~ignored(f))
            => (timerId' = DEBOUNCE_TIME /\ sinceLast' = 0)
     /\ (timerId = 0 /\ timerId' = 0 - 1 /\ ~aborted')
          => /\ Cardinality(Started') = Cardinality(Started) + 1
             /\ Cardinality(InProgress') = Cardinality(InProgress) + 1
             /\ \A c \in InProgress : cyc'[c] = cyc[c]]_vars

\* a window that began while the first cycle was running has run out, and
\* the second cycle has begun beside the first
C28_Witness ==
  /\ ~aborted
  /\ InProgress = {1, 2}
  /\ Len(cyc[2].events) = 2
  /\ timerId = 0 - 1
  /\ sinceLast = DEBOUNCE_TIME

\* C29: #reloadCount goes up by exactly one for every cycle that emits
\* willReload: it equals the number of cycles begun, and the c-th cycle is
\* labelled c, so that the labels increase strictly and none is used twice;
\* this for overlapping cycles and for a cycle whose willReload listener
\* disposes the session.
C29_CountsEveryCycle ==
  /\ reloadCount = Cardinality(Started)
  /\ \A c \in Cycles : cyc[c].events # <<>> => cyc[c].id = c

\* C30: every cycle that has begun comes to its end (didReload, an error
\* event or a swallowed AbortError) provided every awaited call returns,
\* and it never makes more copy attempts than count = RETRY_TIME /
\* RETRY_INTERVAL = 600 (MaxAttempts in the model).
C30_CycleTerminates ==
  /\ [](\A c \in Cycles :
          /\ cyc[c].retry.calls <= RetryCount
          /\ cyc[c].retry.delays <= RetryCount - 1
          /\ cyc[c].retry.waited <= (RetryCount - 1) * RETRY_INTERVAL
          /\ RetryCount <= RETRY_TIME \div RETRY_INTERVAL
          /\ RETRY_TIME \div RETRY_INTERVAL = 600)
  /\ \A c \in Cycles :
       (cyc[c].pc # "idle") ~> (cyc[c].pc \in {"done", "retired"})

\* a cycle has ended with an error after failing every attempt it had
C30_Witness ==
  \E c \in Cycles :
    /\ cyc[c].pc = "done"
    /\ cyc[c].outcome = "error"
    /\ cyc[c].retry.pc = "threw"
    /\ cyc[c].retry.calls = RetryCount
    /\ cyc[c].retry.delays = RetryCount - 1

\* C26: when dispose() is called while watcher setup awaits mkdir, setup
\* ends silently: the step that ends it opens no watcher and emits no error
\* event, and no watcher is open in any state of a disposed session.
C26_SetupAbortsSilently ==
  [][/\ aborted' => watcher' # "open"
     /\ (aborted /\ watcher = "mkdir")
          => (watcher' \in {"mkdir", "aborted"}
              /\ sessionErrors' = sessionErrors)]_vars

\* the entries of the source tree that the destination tree lacks
Missing == {q \in TreePaths : srcTree[q] # "absent" /\ destTree[q] = "absent"}

C31_ReloadedOnlyOnSuccess ==
  /\ notification.kind = "reloaded"
       => \E c \in Cycles :
            /\ cyc[c].id = notification.id
            /\ Over(c)
            /\ cyc[c].outcome = "reloaded"
            /\ "didReload" \in Events(c)
  /\ aborted => notification = NoNotification

\* C32: every plan computeBackupOptions returns keeps the root out of the
\* copy and of the watch: whatever command was accepted ("." and ".."
\* segments and repeated separators included), copySrc and watchDir are
\* neither the root directory nor the empty path.
C32_PlanKeepsRootOut ==
  plan.state = "returned"
    => /\ plan.backupOptions.copySrc \notin {<<>>, <<Sep>>}
       /\ plan.backupOptions.watchDir \notin {<<>>, <<Sep>>}

\* C33: in startLspSessionDev, a change of the output directory that comes
\* after a reload has finished (with success, or with the error of a backup
\* that used up its attempts) and while the session is in use requests a
\* reload: the debounce window starts.
C33_ChangeTriggersReload ==
  [][(/\ DevChange
      /\ ~devDisposed
      /\ DevInProgress = {}
      /\ \E r \in DevFinished :
           /\ r = Cardinality(DevStarted)
           /\ \/ devReloads[r].outcome = "reloaded"
              \/ devReloads[r].retry.pc = "threw")
       => devTimerId' = DEBOUNCE_TIME]_vars

\* C34: in startLspSessionDev no two reloads are in progress together: no
\* request is pending and the listener is not set while a reload runs, and
\* a request is pending only at start-up or after a reload whose backup
\* was completed.
C34_OneReloadAtATime ==
  /\ Cardinality(DevInProgress) <= 1
  /\ DevInProgress # {} => (devTimerId = 0 - 1 /\ devWatcher # "armed")
  /\ devTimerId >= 0
       => \/ DevStarted = {}
          \/ LET r == Cardinality(DevStarted)
             IN /\ devReloads[r].pc = "done"
                /\ devReloads[r].retry.pc = "returned"

\* the second reload, requested by a change after the first one, is
\* awaiting its backup
C34_Witness ==
  /\ devReloads[1].pc = "done"
  /\ devReloads[1].outcome = "reloaded"
  /\ devReloads[2].pc = "backup"
  /\ devWatcher = "fired"

====
